---- MODULE Spec2Model ----
(***************************************************************************)
(* GLaDOS/Kokoro TTS manager (glados-mcp/tts/glados_manager.py) and the    *)
(* MCP tools that expose it (glados-mcp/tts/server.py).                    *)
(*                                                                         *)
(* Conventions of the model                                                *)
(*   - a string the code inspects (a voice name) is a sequence of          *)
(*     one-character strings, so that lower() and startswith() compute;    *)
(*   - a text is a sequence of chunks, + is \o;                            *)
(*   - an Optional value is <<>> (None) or <<x>>;                          *)
(*   - a volume is an integer number of hundredths (55 is 0.55);           *)
(*   - the output device (sounddevice) holds a set of open streams; the    *)
(*     tool calls are served one at a time.                                *)
(***************************************************************************)
EXTENDS Integers, Sequences, FiniteSets, TLC

VARIABLES
    kokoro_voices,  \* self.kokoro_voices: the list get_voices() returned
    glados_synth,   \* self.glados_synth is not None
    active,         \* streams the output device is playing
    pc,             \* "idle": waiting for a request; "wait": speak is inside
                    \* sd.wait(); "returned": the tool has returned its status
    call,           \* arguments of the current (or last) call, as the caller gave them
    ret,            \* status of the current (or last) call; ret.done when returned
    trace,          \* what the current (or last) call did to its collaborators
    pre             \* the streams that were active when the call started

vars == <<kokoro_voices, glados_synth, active, pc, call, ret, trace, pre>>

----------------------------------------------------------------------------
(* Bounds and input sets *)

MaxVoices == 6          \* longest list of Kokoro voices loaded at start

None == <<>>
Some(x) == <<x>>

af_alloy == <<"a", "f", "_", "a">>
af_bella == <<"a", "f", "_", "b">>
bf_emma  == <<"b", "f", "_", "e">>
am_adam  == <<"a", "m", "_", "a">>
bm_lewis == <<"b", "m", "_", "l">>
jf_alpha == <<"j", "f", "_", "a">>
af_sky   == <<"a", "f", "_", "s">>
Af_alloy == <<"A", "f", "_", "a">>
glados_lc == <<"g", "l", "a", "d", "o", "s">>
GLaDOS_mc == <<"G", "L", "a", "D", "O", "S">>

\* the voices file, in file order; a run loads its first entries
VoicesFile == <<af_alloy, bf_emma, jf_alpha, am_adam, bm_lewis, af_bella, af_sky>>

\* voice arguments a caller passes
CallerVoices == {None, Some(glados_lc), Some(GLaDOS_mc), Some(af_alloy),
                 Some(jf_alpha), Some(Af_alloy)}

CallerTexts == {<<"Hello">>, <<"I see. ", "Status update">>}

CallerVolumes == {None, Some(-50), Some(0), Some(80), Some(100), Some(250)}

AlertTypes == {"radio", "chime", "unknown"}

\* waveforms an engine may return
Waveforms == {<<10, -20>>, <<30>>}

\* the point at which a collaborator raises during a call ("play": sd.play
\* rejects the data before touching the device; "open": it raises while
\* opening the new stream, after it has stopped the previous one)
SpeakFailPoints == {"none", "construct", "normalize", "generate", "play", "open"}
AlertFailPoints == {"none", "read", "play", "open"}

\* sf.read() of the two clips under sounds/
RadioClip == <<5, 5, 5>>
ChimeClip == <<7>>

----------------------------------------------------------------------------
(* Strings *)

LowerChar(c) ==
    CASE c = "G" -> "g" [] c = "L" -> "l" [] c = "A" -> "a"
      [] c = "D" -> "d" [] c = "O" -> "o" [] c = "S" -> "s"
      [] c = "F" -> "f" [] OTHER -> c

lower(s) == [i \in DOMAIN s |-> LowerChar(s[i])]

startswith(s, p) == Len(s) >= Len(p) /\ SubSeq(s, 1, Len(p)) = p

Max(a, b) == IF a >= b THEN a ELSE b
Min(a, b) == IF a <= b THEN a ELSE b

\* Python's xs[:n]
Take(xs, n) == SubSeq(xs, 1, Min(n, Len(xs)))

Range(xs) == {xs[i] : i \in DOMAIN xs}

----------------------------------------------------------------------------
(* Events a call leaves in its trace *)

Ev(e, a) == [ev |-> e, arg |-> a]

Status(o, k, t, v, d) == [op |-> o, kind |-> k, text |-> t, voice |-> v, data |-> d, done |-> TRUE]

Pending(s) == [s EXCEPT !.done = FALSE]

Call(o, via, t, v, vol, a) ==
    [op |-> o, via |-> via, text |-> t, voice |-> v, volume |-> vol, alert_type |-> a]

NoCall == Call("none", "none", <<>>, None, None, "")

NoStatus == Status("none", "none", <<>>, None, <<>>)

Outcome(a, t, p, r) == [active |-> a, trace |-> t, pc |-> p, ret |-> r]

\* the call ended with an exception that no except clause took
Escaped(o) == Status(o, "uncaught exception", <<>>, None, <<>>)

\* except Exception: return <status>
Caught(out, status) ==
    IF out.ret.kind = "uncaught exception"
    THEN Outcome(out.active, out.trace, "returned", status)
    ELSE out

----------------------------------------------------------------------------
(* The output device: sounddevice *)

FreshId(streams) ==
    CHOOSE n \in 0..Cardinality(streams) : \A s \in streams : s.id # n

Stream(streams, req) ==
    [id |-> FreshId(streams), src |-> req.src, samples |-> req.samples, loop |-> req.loop]

\* sd.play(data, samplerate): the stream of the previous play() is stopped and
\* closed, then a stream for data is opened and started
sd_play_mixing(streams, req) == streams \cup {Stream(streams, req)}
sd_play(streams, req) == {Stream(streams, req)}

\* sd.play raising: before the device is touched, or after the previous
\* stream was stopped
sd_play_raises(streams, fail) == IF fail = "open" THEN {} ELSE streams

\* sd.wait() returns once the stream opened by the last play() has finished
sd_wait_returns(streams) == \A s \in streams : s.src # "speech"

----------------------------------------------------------------------------
(* glados_manager.py *)

sassy_prefixes ==
    << <<"Oh, how amusing. ">>, <<"Well, well. ">>, <<"I see. ">>,
       <<"How... predictable. ">>, <<"Fascinating. ">> >>

\* the exception a collaborator raised, as the last event of the trace
Raised(tr, point) == Append(tr, Ev("raised", point))

\* volume = max(0.0, min(1.0, volume))
clamp_volume_upper_only(volume) == Min(100, volume)
clamp_volume(volume) == Max(0, Min(100, volume))

\* _play_audio without its sd.wait()
_play_audio_no_wait(dev, tr, audio, volume, fail) ==
    LET audio_scaled == [i \in DOMAIN audio |-> audio[i] * clamp_volume(volume)]
        req == [src |-> "speech", samples |-> audio_scaled, loop |-> FALSE]
    IN  IF fail \in {"play", "open"}
        THEN [raised |-> TRUE, active |-> sd_play_raises(dev, fail), pc |-> "returned",
              trace |-> Raised(Append(tr, Ev("play", req)), fail)]
        ELSE [raised |-> FALSE, active |-> sd_play(dev, req), pc |-> "returned",
              trace |-> Append(tr, Ev("play", req))]

\* result of _play_audio: raised, the device's streams, the events so far, and
\* where the caller is: blocked in sd.wait(), or out of the function
_play_audio(dev, tr, audio, volume, fail) ==
    LET vol == clamp_volume(volume)
        audio_scaled == [i \in DOMAIN audio |-> audio[i] * vol]
        req == [src |-> "speech", samples |-> audio_scaled, loop |-> FALSE]
    IN  IF fail \in {"play", "open"}
        THEN [raised |-> TRUE, active |-> sd_play_raises(dev, fail), pc |-> "returned",
              trace |-> Raised(Append(tr, Ev("play", req)), fail)]
        ELSE [raised |-> FALSE, active |-> sd_play(dev, req), pc |-> "wait",
              trace |-> tr \o <<Ev("play", req), Ev("wait", <<>>)>>]

\* the status a speak returns once _play_audio is over
AfterPlay(played, status) ==
    Outcome(played.active, played.trace, played.pc,
            IF played.pc = "wait" THEN Pending(status) ELSE status)

GladosFailed == Status("speak", "Speech synthesis failed. How disappointing.", <<>>, None, <<>>)

\* env.sass: 0 when random.random() >= 0.3, else the index random.choice picks
_speak_glados(dev, text, volume, env) ==
    LET text1 == IF env.sass > 0 THEN sassy_prefixes[env.sass] \o text ELSE text
        t1 == <<Ev("normalize", text1)>>
        t2 == Append(t1, Ev("generate", env.audio))
        played == _play_audio(dev, t2, env.audio, volume, env.fail)
    IN  IF ~glados_synth
        THEN Outcome(dev, Raised(<<>>, "no synthesizer"), "returned", GladosFailed)
        ELSE IF env.fail = "normalize"
        THEN Outcome(dev, Raised(t1, env.fail), "returned", GladosFailed)
        ELSE IF env.fail = "generate"
        THEN Outcome(dev, Raised(t2, env.fail), "returned", GladosFailed)
        ELSE IF played.raised
        THEN Outcome(played.active, played.trace, "returned", GladosFailed)
        ELSE AfterPlay(played, Status("speak", "GLaDOS", text1, None, <<>>))

KokoroFailed == Status("speak", "Voice synthesis failed", <<>>, None, <<>>)

\* ", ".join(self.kokoro_voices[:5])
suggested_voices_all == kokoro_voices
suggested_voices == Take(kokoro_voices, 5)

_speak_kokoro_sassy(dev, text, voice, volume, env) ==
    LET text1 == IF env.sass > 0 THEN sassy_prefixes[env.sass] \o text ELSE text
        t1 == <<Ev("construct", voice), Ev("normalize", text1)>>
        t2 == Append(t1, Ev("generate", env.audio))
        played == _play_audio(dev, t2, env.audio, volume, env.fail)
    IN  IF voice \notin Range(kokoro_voices)
        THEN Outcome(dev, <<>>, "returned",
                     Status("speak", "Voice not found", <<>>, Some(voice), suggested_voices))
        ELSE IF env.fail \in {"construct", "normalize", "generate"}
        THEN Outcome(dev, Raised(t2, env.fail), "returned", KokoroFailed)
        ELSE IF played.raised
        THEN Outcome(played.active, played.trace, "returned", KokoroFailed)
        ELSE AfterPlay(played, Status("speak", "Kokoro", text1, Some(voice), <<>>))

_speak_kokoro(dev, text, voice, volume, env) ==
    LET t0 == <<Ev("construct", voice)>>
        t1 == Append(t0, Ev("normalize", text))
        t2 == Append(t1, Ev("generate", env.audio))
        played == _play_audio(dev, t2, env.audio, volume, env.fail)
    IN  IF voice \notin Range(kokoro_voices)
        THEN Outcome(dev, <<>>, "returned",
                     Status("speak", "Voice not found", <<>>, Some(voice), suggested_voices))
        ELSE IF env.fail = "construct"
        THEN Outcome(dev, Raised(t0, env.fail), "returned", KokoroFailed)
        ELSE IF env.fail = "normalize"
        THEN Outcome(dev, Raised(t1, env.fail), "returned", KokoroFailed)
        ELSE IF env.fail = "generate"
        THEN Outcome(dev, Raised(t2, env.fail), "returned", KokoroFailed)
        ELSE IF played.raised
        THEN Outcome(played.active, played.trace, "returned", KokoroFailed)
        ELSE AfterPlay(played, Status("speak", "Kokoro", text, Some(voice), <<>>))

SpeakFailed == Status("speak", "Speech synthesis failed: e", <<>>, None, <<>>)

speak(dev, text, voice, volume, env) ==
    Caught(IF voice = None \/ lower(voice[1]) = glados_lc
           THEN _speak_glados(dev, text, IF volume # None THEN volume[1] ELSE 55, env)
           ELSE _speak_kokoro(dev, text, voice[1], IF volume # None THEN volume[1] ELSE 100, env),
           SpeakFailed)

AlertMalfunction == Status("alert", "Alert system malfunction", <<>>, None, <<>>)

\* alert that waits for the clip to end, as _play_audio does
alert_blocking(dev, alert_type, exists, fail) ==
    LET clip == IF alert_type = "radio" THEN RadioClip ELSE ChimeClip
        req == [src |-> alert_type, samples |-> clip, loop |-> FALSE]
        t3 == <<Ev("exists", alert_type), Ev("read", alert_type), Ev("play", req)>>
    IN  IF alert_type \notin {"radio", "chime"}
        THEN Outcome(dev, <<>>, "returned",
                     Status("alert", "Alert type not recognized", <<>>, None, alert_type))
        ELSE IF ~exists \/ fail # "none"
        THEN Outcome(dev, Raised(t3, fail), "returned", AlertMalfunction)
        ELSE Outcome({}, Append(t3, Ev("wait", <<>>)), "returned",
                     Status("alert", "GLaDOS Alert", <<>>, None, alert_type))

\* alert whose else branch falls through to the chime
alert_fallthrough(dev, alert_type, exists, fail) ==
    LET clip == IF alert_type = "radio" THEN RadioClip ELSE ChimeClip
        req == [src |-> alert_type, samples |-> clip, loop |-> FALSE]
        t3 == <<Ev("exists", alert_type), Ev("read", alert_type), Ev("play", req)>>
    IN  IF ~exists \/ fail # "none"
        THEN Outcome(dev, Raised(t3, fail), "returned", AlertMalfunction)
        ELSE Outcome(sd_play(dev, req), t3, "returned",
                     Status("alert", "GLaDOS Alert", <<>>, None, alert_type))

\* alert without its try/except: what sf.read or sd.play raises leaves alert
alert_no_except(dev, alert_type, exists, fail) ==
    LET clip == IF alert_type = "radio" THEN RadioClip ELSE ChimeClip
        req == [src |-> alert_type, samples |-> clip, loop |-> FALSE]
        t1 == <<Ev("exists", alert_type)>>
        t2 == Append(t1, Ev("read", alert_type))
        t3 == Append(t2, Ev("play", req))
    IN  IF alert_type \notin {"radio", "chime"}
        THEN Outcome(dev, <<>>, "returned",
                     Status("alert", "Alert type not recognized", <<>>, None, alert_type))
        ELSE IF ~exists
        THEN Outcome(dev, t1, "returned",
                     Status("alert", "Sound file missing", <<>>, None, alert_type))
        ELSE IF fail = "read"
        THEN Outcome(dev, Raised(t2, fail), "returned", Escaped("alert"))
        ELSE IF fail \in {"play", "open"}
        THEN Outcome(sd_play_raises(dev, fail), Raised(t3, fail), "returned", Escaped("alert"))
        ELSE Outcome(sd_play(dev, req), t3, "returned",
                     Status("alert", "GLaDOS Alert", <<>>, None, alert_type))

alert(dev, alert_type, exists, fail) ==
    LET clip == IF alert_type = "radio" THEN RadioClip ELSE ChimeClip
        req == [src |-> alert_type, samples |-> clip, loop |-> FALSE]
        t1 == <<Ev("exists", alert_type)>>
        t2 == Append(t1, Ev("read", alert_type))
        t3 == Append(t2, Ev("play", req))
    IN  IF alert_type \notin {"radio", "chime"}
        THEN Outcome(dev, <<>>, "returned",
                     Status("alert", "Alert type not recognized", <<>>, None, alert_type))
        ELSE IF ~exists
        THEN Outcome(dev, t1, "returned",
                     Status("alert", "Sound file missing", <<>>, None, alert_type))
        ELSE IF fail = "read"
        THEN Outcome(dev, Raised(t2, fail), "returned", AlertMalfunction)
        ELSE IF fail \in {"play", "open"}
        THEN Outcome(sd_play_raises(dev, fail), Raised(t3, fail), "returned", AlertMalfunction)
        ELSE Outcome(sd_play(dev, req), t3, "returned",
                     Status("alert", "GLaDOS Alert", <<>>, None, alert_type))

\* categories that overlap: the male prefix tested without its underscore
get_available_voices_overlap ==
    [kokoro_female_us      |-> SelectSeq(kokoro_voices, LAMBDA v : startswith(v, <<"a", "f", "_">>)),
     kokoro_female_british |-> SelectSeq(kokoro_voices, LAMBDA v : startswith(v, <<"b", "f", "_">>)),
     kokoro_male_us        |-> SelectSeq(kokoro_voices, LAMBDA v : startswith(v, <<"a">>)),
     kokoro_male_british   |-> SelectSeq(kokoro_voices, LAMBDA v : startswith(v, <<"b", "m", "_">>)),
     all_kokoro            |-> kokoro_voices]

get_available_voices ==
    [kokoro_female_us      |-> SelectSeq(kokoro_voices, LAMBDA v : startswith(v, <<"a", "f", "_">>)),
     kokoro_female_british |-> SelectSeq(kokoro_voices, LAMBDA v : startswith(v, <<"b", "f", "_">>)),
     kokoro_male_us        |-> SelectSeq(kokoro_voices, LAMBDA v : startswith(v, <<"a", "m", "_">>)),
     kokoro_male_british   |-> SelectSeq(kokoro_voices, LAMBDA v : startswith(v, <<"b", "m", "_">>)),
     all_kokoro            |-> kokoro_voices]

----------------------------------------------------------------------------
(* server.py: the tools *)

\* speak(text, voice=None, volume=1.0): an omitted volume arrives as 1.0
server_speak(dev, text, voice, volume, env) ==
    Caught(speak(dev, text, voice, Some(IF volume = None THEN 100 ELSE volume[1]), env),
           Status("speak", "Speech failed: e", <<>>, None, <<>>))

server_alert(dev, alert_type, exists, fail) ==
    Caught(alert(dev, alert_type, exists, fail),
           Status("alert", "Alert failed: e", <<>>, None, <<>>))

list_voices == Status("list_voices", "voices", <<>>, None, get_available_voices)

----------------------------------------------------------------------------
(* The state machine *)

\* GladosManager.__init__: a failure leaves what was not yet set at its default
Init ==
    /\ \/ /\ glados_synth = FALSE
          /\ kokoro_voices = <<>>
       \/ /\ glados_synth = TRUE
          /\ \E n \in 0..MaxVoices : kokoro_voices = Take(VoicesFile, n)
    /\ active = {}
    /\ pc = "idle"
    /\ call = NoCall
    /\ ret = NoStatus
    /\ trace = <<>>
    /\ pre = {}

Envs == [sass : 0..Len(sassy_prefixes), audio : Waveforms, fail : SpeakFailPoints]

Apply(out) ==
    /\ pre' = active
    /\ active' = out.active
    /\ trace' = out.trace
    /\ pc' = out.pc
    /\ ret' = out.ret
    /\ UNCHANGED <<kokoro_voices, glados_synth>>

\* a caller invokes the speak tool
ToolSpeak ==
    /\ pc = "idle"
    /\ \E text \in CallerTexts, voice \in CallerVoices, volume \in CallerVolumes, env \in Envs :
          /\ call' = Call("speak", "server", text, voice, volume, "")
          /\ Apply(server_speak(active, text, voice, volume, env))

\* a caller invokes GladosManager.speak
ManagerSpeak ==
    /\ pc = "idle"
    /\ \E text \in CallerTexts, voice \in CallerVoices, volume \in CallerVolumes, env \in Envs :
          /\ call' = Call("speak", "manager", text, voice, volume, "")
          /\ Apply(speak(active, text, voice, volume, env))

\* sd.wait() returns and speak returns its status
WaitDone ==
    /\ pc = "wait"
    /\ sd_wait_returns(active)
    /\ pc' = "returned"
    /\ ret' = [ret EXCEPT !.done = TRUE]
    /\ UNCHANGED <<kokoro_voices, glados_synth, active, call, trace, pre>>

\* sd.wait() raises: the stream is closed and the except clause answers
WaitRaise ==
    /\ pc = "wait"
    /\ pc' = "returned"
    /\ active' = {s \in active : s.src # "speech"}
    /\ ret' = IF ret.kind = "GLaDOS" THEN GladosFailed ELSE KokoroFailed
    /\ trace' = Raised(trace, "wait")
    /\ UNCHANGED <<kokoro_voices, glados_synth, call, pre>>

\* a caller invokes the alert tool
ToolAlert ==
    /\ pc = "idle"
    /\ \E alert_type \in AlertTypes, exists \in BOOLEAN, fail \in AlertFailPoints :
          /\ call' = Call("alert", "server", <<>>, None, None, alert_type)
          /\ Apply(server_alert(active, alert_type, exists, fail))

\* a caller invokes GladosManager.alert
ManagerAlert ==
    /\ pc = "idle"
    /\ \E alert_type \in AlertTypes, exists \in BOOLEAN, fail \in AlertFailPoints :
          /\ call' = Call("alert", "manager", <<>>, None, None, alert_type)
          /\ Apply(alert(active, alert_type, exists, fail))

\* a caller invokes the list_voices tool
ToolListVoices ==
    /\ pc = "idle"
    /\ call' = Call("list_voices", "server", <<>>, None, None, "")
    /\ Apply(Outcome(active, <<>>, "returned", list_voices))

\* the status reaches the caller and the server reads the next request
Respond ==
    /\ pc = "returned"
    /\ pc' = "idle"
    /\ call' = NoCall
    /\ ret' = NoStatus
    /\ trace' = <<>>
    /\ pre' = {}
    /\ UNCHANGED <<kokoro_voices, glados_synth, active>>

\* a stream that does not loop reaches its last frame
StreamFinished ==
    /\ \E s \in active : ~s.loop /\ active' = active \ {s}
    /\ UNCHANGED <<kokoro_voices, glados_synth, pc, call, ret, trace, pre>>

Next ==
    \/ ToolSpeak
    \/ ManagerSpeak
    \/ WaitDone
    \/ WaitRaise
    \/ ToolAlert
    \/ ManagerAlert
    \/ ToolListVoices
    \/ Respond
    \/ StreamFinished

Spec == Init /\ [][Next]_vars

----------------------------------------------------------------------------
(* Properties *)

SpeakSucceeded == ret.op = "speak" /\ ret.kind \in {"GLaDOS", "Kokoro"}
AlertSucceeded(kind) == ret.op = "alert" /\ ret.kind = "GLaDOS Alert" /\ ret.data = kind
PlayStarted == SpeakSucceeded \/ AlertSucceeded("radio") \/ AlertSucceeded("chime")

\* the name selects the Primary voice: "glados" in any mix of cases
IsGladosName(v) ==
    /\ Len(v) = 6
    /\ v[1] \in {"g", "G"} /\ v[2] \in {"l", "L"} /\ v[3] \in {"a", "A"}
    /\ v[4] \in {"d", "D"} /\ v[5] \in {"o", "O"} /\ v[6] \in {"s", "S"}

PrimarySelected == call.voice = None \/ IsGladosName(call.voice[1])

Clamp01(v) == IF v < 0 THEN 0 ELSE IF v > 100 THEN 100 ELSE v

Scaled(audio, factor) == [k \in DOMAIN audio |-> audio[k] * factor]

\* the call got a waveform from its engine at event i
Generated(i) ==
    /\ trace[i].ev = "generate"
    /\ ~(i < Len(trace) /\ trace[i + 1].ev = "raised")

\* C1 (as stated): whenever a call starts a playback while a previous stream
\* is active, it stops that stream before it issues play, and at most one
\* stream is active in every state.
C1_StopBeforePlay ==
    /\ Cardinality(active) <= 1
    /\ \A i \in DOMAIN trace :
          (trace[i].ev = "play" /\ pre # {}) =>
              \E j \in 1..(i - 1) : trace[j].ev = "stop"

\* C1 (amended): the manager never issues a stop; the device's play replaces
\* the stream that was active, so at most one stream is active in every state
\* and none of the streams active before a successful play survives it.
C1_AtMostOneStream ==
    /\ Cardinality(active) <= 1
    /\ \A i \in DOMAIN trace : trace[i].ev # "stop"
    /\ PlayStarted => active \cap pre = {}

C1_Witness ==
    /\ pre # {}
    /\ PlayStarted
    /\ active # {}
    /\ active \cap pre = {}

\* C2: a voice name that is given, is not "glados" in any case and is not in
\* the loaded list gets a not-found status with at most 5 suggestions, and the
\* call constructs no adapter, synthesizes nothing and plays nothing.
C2_UnknownVoiceRejected ==
    (/\ call.op = "speak"
     /\ call.voice # None
     /\ ~IsGladosName(call.voice[1])
     /\ \A i \in DOMAIN kokoro_voices : kokoro_voices[i] # call.voice[1])
    => /\ pc = "returned"
       /\ ret.kind = "Voice not found"
       /\ Len(ret.data) <= 5
       /\ \A i \in DOMAIN ret.data : ret.data[i] = kokoro_voices[i]
       /\ trace = <<>>
       /\ active \subseteq pre

C2_Witness ==
    /\ ret.kind = "Voice not found"
    /\ Len(kokoro_voices) > 5
    /\ Len(ret.data) = 5

\* C3: the samples handed to the device are the engine's samples times
\* clamp(v, 0, 1) for every volume v the caller gives, and a volume out of
\* range does not keep the call from playing.
C3_VolumeClamped ==
    (call.op = "speak" /\ call.volume # None) =>
        \A i \in DOMAIN trace :
            Generated(i) =>
                /\ i < Len(trace)
                /\ trace[i + 1].ev = "play"
                /\ trace[i + 1].arg.samples = Scaled(trace[i].arg, Clamp01(call.volume[1]))

C3_Witness ==
    /\ call.op = "speak"
    /\ call.volume = Some(-50)
    /\ SpeakSucceeded
    /\ ret.done

\* C4: with no volume given the applied volume is 0.55 on the Primary voice
\* and 1.0 on a Secondary voice, through the tool as well as on the manager;
\* a given volume is applied clamped.
C4_DefaultVolume ==
    call.op = "speak" =>
        \A i \in DOMAIN trace :
            (Generated(i) /\ i < Len(trace) /\ trace[i + 1].ev = "play") =>
                trace[i + 1].arg.samples =
                    Scaled(trace[i].arg,
                           IF call.volume # None THEN Clamp01(call.volume[1])
                           ELSE IF PrimarySelected THEN 55 ELSE 100)

C5_Prefixes ==
    { <<"Oh, how amusing. ">>, <<"Well, well. ">>, <<"I see. ">>,
      <<"How... predictable. ">>, <<"Fascinating. ">> }

\* C5: on a Secondary voice the text normalized and the text in the status are
\* the caller's text; on the Primary voice the text normalized is the caller's
\* text or one of the 5 prefixes followed by it, and the status carries the
\* text that was normalized.
C5_PersonalityOnlyOnPrimary ==
    call.op = "speak" =>
        /\ \A i \in DOMAIN trace :
              trace[i].ev = "normalize" =>
                  \/ trace[i].arg = call.text
                  \/ /\ PrimarySelected
                     /\ \E p \in C5_Prefixes : trace[i].arg = p \o call.text
        /\ ret.kind = "Kokoro" => (~PrimarySelected /\ ret.text = call.text)
        /\ ret.kind = "GLaDOS" =>
              /\ PrimarySelected
              /\ \E i \in DOMAIN trace : trace[i].ev = "normalize" /\ trace[i].arg = ret.text

C5_Witness ==
    /\ ret.kind = "Kokoro"
    /\ ret.done
    /\ ret.text = call.text
    /\ \E i \in DOMAIN trace : trace[i].ev = "normalize"

Occurrences(xs, v) == Cardinality({i \in DOMAIN xs : xs[i] = v})

\* in how many places of the four demographic categories v is listed
Placements(r, v) ==
    Occurrences(r.kokoro_female_us, v) + Occurrences(r.kokoro_female_british, v)
        + Occurrences(r.kokoro_male_us, v) + Occurrences(r.kokoro_male_british, v)

HasDemographicPrefix(v) ==
    /\ Len(v) >= 3
    /\ <<v[1], v[2]>> \in {<<"a", "f">>, <<"b", "f">>, <<"a", "m">>, <<"b", "m">>}
    /\ v[3] = "_"

\* C6 (as stated): list_voices places every loaded identifier in exactly one
\* demographic category.
C6_EveryVoiceInOneCategory ==
    ret.op = "list_voices" =>
        \A v \in Range(kokoro_voices) : Placements(ret.data, v) = 1

\* C6 (amended): an identifier that starts with af_, bf_, am_ or bm_ is listed
\* once, in one demographic category; any other identifier is in none of them;
\* all_kokoro is the loaded list.
C6_KnownPrefixesPartitioned ==
    ret.op = "list_voices" =>
        /\ \A v \in Range(kokoro_voices) :
              Placements(ret.data, v) = IF HasDemographicPrefix(v) THEN 1 ELSE 0
        /\ ret.data.all_kokoro = kokoro_voices

C6_Witness ==
    /\ ret.op = "list_voices"
    /\ \E v \in Range(kokoro_voices) : ~HasDemographicPrefix(v)
    /\ \E v \in Range(kokoro_voices) : HasDemographicPrefix(v) /\ Placements(ret.data, v) = 1

\* C7: when speak returns a success status its playback has finished: play was
\* followed by wait, and no stream is active.
C7_SpeakReturnsAfterPlayback ==
    (SpeakSucceeded /\ ret.done) =>
        /\ active = {}
        /\ Len(trace) >= 2
        /\ trace[Len(trace) - 1].ev = "play"
        /\ trace[Len(trace)].ev = "wait"

C7_Witness ==
    /\ SpeakSucceeded
    /\ ret.done
    /\ pc = "returned"
    /\ pre # {}

\* C8: when alert("radio") returns its success status the radio stream is
\* active and was requested as a loop, so that only a later play ends it.
C8_RadioLoops ==
    (pc = "returned" /\ AlertSucceeded("radio")) =>
        /\ \A i \in DOMAIN trace : trace[i].ev = "play" => trace[i].arg.loop
        /\ \E s \in active : s.src = "radio" /\ s.loop

\* C9 (as stated): alert("chime") returns only after the chime has finished,
\* so no stream is active when it returns.
C9_ChimeBlocks ==
    (pc = "returned" /\ AlertSucceeded("chime")) => active = {}

\* C9 (amended): alert("chime") with the clip present hands the device a
\* one-shot play and returns without waiting: the chime is still playing at
\* the moment alert returns.
C9_ChimeDoesNotBlock ==
    [][(pc = "idle" /\ call'.op = "alert" /\ call'.alert_type = "chime"
            /\ ret'.kind = "GLaDOS Alert")
        => /\ pc' = "returned"
           /\ \A i \in DOMAIN trace' : trace'[i].ev # "wait"
           /\ Cardinality(active') = 1
           /\ \A s \in active' : s.src = "chime" /\ ~s.loop /\ s.samples = ChimeClip]_vars

C9_Witness ==
    /\ pc = "returned"
    /\ AlertSucceeded("chime")
    /\ \E s \in active : s.src = "chime"

\* C10: an alert of a kind other than "radio" and "chime" is rejected and
\* touches nothing: no clip is looked up or read, the device gets no request,
\* and the streams that were active are the streams that are active.
C10_UnknownAlertNoEffect ==
    [][(pc = "idle" /\ call'.op = "alert" /\ call'.alert_type \notin {"radio", "chime"})
        => /\ pc' = "returned"
           /\ ret'.kind = "Alert type not recognized"
           /\ trace' = <<>>
           /\ active' = active
           /\ kokoro_voices' = kokoro_voices
           /\ glados_synth' = glados_synth]_vars

C10_Witness ==
    /\ pc = "returned"
    /\ call.op = "alert"
    /\ call.alert_type = "unknown"
    /\ ret.kind = "Alert type not recognized"
    /\ \E s \in active : s.src = "radio"

C11_FailureStatuses ==
    {"Voice not found", "Speech synthesis failed. How disappointing.",
     "Voice synthesis failed", "Speech synthesis failed: e", "Speech failed: e",
     "Sound file missing", "Alert type not recognized", "Alert system malfunction",
     "Alert failed: e"}

C11_SuccessStatuses == {"GLaDOS", "Kokoro", "GLaDOS Alert", "voices"}

\* C11: every speak and alert call ends by returning a status string, whatever
\* raised on the way (an engine, a missing Primary engine, the device in play
\* or wait) or was missing (the voice, the clip); a collaborator that raised
\* makes it a failure status; and no state is stuck: a returned status is
\* delivered, every call is accepted again once it is, and a speak that waits
\* for its playback can get out of the wait.
C11_EveryCallReturnsStatus ==
    /\ pc = "returned" =>
          /\ ret.done
          /\ ret.op = call.op
          /\ ret.kind \in C11_FailureStatuses \cup C11_SuccessStatuses
          /\ ENABLED Respond
    /\ (trace # <<>> /\ trace[Len(trace)].ev = "raised") =>
          /\ pc = "returned"
          /\ ret.kind \in C11_FailureStatuses
    /\ (call.op = "speak" /\ PrimarySelected /\ ~glados_synth) =>
          /\ pc = "returned"
          /\ ret.kind \in C11_FailureStatuses
    /\ pc = "idle" =>
          /\ ENABLED ToolSpeak
          /\ ENABLED ManagerSpeak
          /\ ENABLED ToolAlert
          /\ ENABLED ManagerAlert
    /\ pc = "wait" => (ENABLED WaitDone \/ ENABLED StreamFinished)

C11_Witness ==
    /\ pc = "returned"
    /\ call.op = "alert"
    /\ call.via = "manager"
    /\ trace # <<>>
    /\ trace[Len(trace)] = Ev("raised", "open")
    /\ ret = AlertMalfunction
    /\ pre # {}
    /\ active = {}

====
